---- MODULE Spec2Model ----
(***************************************************************************)
(* Model of the YouTube analysis pipeline: YouTubeAnalyzer.analyze_video  *)
(* (src/src/main.py), the form's inline pipeline (src/src/app.py) and the *)
(* stage operations they call (downloader, converter, transcriber,        *)
(* summarizer, utils).  External collaborators (video platform, ffmpeg,   *)
(* the Gemini backend, the filesystem) are nondeterministic choices over  *)
(* the outcomes the stage code distinguishes.                             *)
(***************************************************************************)
EXTENDS Integers, Sequences, FiniteSets, TLC

VARIABLES
    entry,            \* which pipeline runs: "analyze_video" (main.py) or "app" (app.py);
                      \* "converter" for a direct client of AudioConverter
    pc,               \* position of the run inside the pipeline
    youtube_url,      \* argument / form field
    style_arg,        \* the caller's summary_type argument, Omitted when left out
    summary_type,     \* parameter of analyze_video / form field
    target_language,  \* argument / form field
    source_language,  \* argument / form field
    video_info,       \* local of the pipeline
    audio_path,       \* local of the pipeline
    converted_path,   \* local of the pipeline
    transcript_data,  \* local of the pipeline
    summary_data,     \* local of the pipeline
    analysis_data,    \* local of the pipeline
    outcome,          \* of a direct call of validate_youtube_url: "accepted" or
                      \* "rejected"; of a pipeline: "running", or how the run ended: "returned", "caught" (None
                      \* returned by the except clause), "raised", and for the form
                      \* "rejected", "stopped", "displayed"
    final_result,     \* value returned by analyze_video (None or the record)
    tempFiles,        \* files in temp_files/: set of [path, size]
    outputFiles,      \* files in output/: set of [kind, lang_suffix, has_analysis]
    backendFiles,     \* audio copies held by the backend: set of paths
    prompts,          \* prompts sent to the backend, by stage
    write_errors,     \* artifacts whose writing was reported as failed
    unlink_errors,    \* files whose deletion was reported as failed
    calls,            \* operations invoked so far, in order: Seq([op, lang])
    persisted,        \* value _save_results returned to analyze_video
    conversions,      \* AudioConverter calls of a direct client, with their results
    download,         \* a call of download_with_progress: the stream, the bytes still
                      \* to come, the values handed to the callback, the result
    sessions,         \* the form's sessions sharing the cached analyzer and temp_files/
    cleanups,         \* calls of cleanup_temp_files, with the files before and after
    now,              \* datetime.now(), in seconds
    archive           \* output/ over successive runs: set of [name, run]

vars == << entry, pc, youtube_url, style_arg, summary_type, target_language,
           source_language, video_info, audio_path, converted_path, transcript_data,
           summary_data, analysis_data, outcome, final_result, tempFiles, outputFiles,
           backendFiles, prompts, write_errors, unlink_errors, calls, persisted,
           conversions, download, sessions, cleanups, now, archive >>

\* the state of the clients modelled on their own, outside one pipeline run
standalone == << download, sessions, cleanups, now, archive >>

\* no such client is running
NoStandalone ==
    /\ download = [none |-> TRUE]
    /\ sessions = << >>
    /\ cleanups = << >>
    /\ now = 0
    /\ archive = {}

-----------------------------------------------------------------------------
(* Values *)

\* Python None for object-valued results (dicts, paths)
None == [none |-> TRUE]

\* Python None for the optional language codes
Unset == "None"

Languages == {"pt", "en", "es", "fr"}

\* languages the run's source_language is drawn from
SourceChoices == {Unset, "en"}

SummaryStyles == {"structured", "bullet_points", "paragraph"}

\* styles a caller may pass: the enumeration and one unrecognized value
StyleChoices == SummaryStyles \cup {"haiku"}

\* the summary_type argument left out of the call
Omitted == "omitted"

\* what each entry receives as style: analyze_video any value of its caller,
\* or none; the form one of the three values of its selectbox
StyleArgs(e) == IF e = "app" THEN SummaryStyles ELSE StyleChoices \cup {Omitted}

\* the default bound to another style
BindSummaryType_Paragraph(arg) == IF arg = Omitted THEN "paragraph" ELSE arg

\* analyze_video(..., summary_type='structured', ...): the parameter's binding
BindSummaryType(arg) == IF arg = Omitted THEN "structured" ELSE arg

\* URLs as token sequences; the validator searches them for a pattern
ShortLinkUrl == << "https://", "youtu.be/", "abc" >>
VimeoUrl == << "https://", "vimeo.com/", "123" >>
Urls == {ShortLinkUrl, VimeoUrl}

youtube_patterns == {"youtube.com/watch?v=", "youtu.be/", "youtube.com/embed/", "youtube.com/v/"}

\* the check passing every string
validate_youtube_url_AcceptAll(url) == TRUE

\* any(re.search(pattern, url) ...): a pattern anywhere in the string
validate_youtube_url(url) == \E i \in 1..Len(url) : url[i] \in youtube_patterns

-----------------------------------------------------------------------------
(* Text, run-length encoded: a sequence of runs [c, n], c = "ws" for        *)
(* whitespace characters and "ch" for the others, n >= 1 characters.        *)

Run(c, n) == [c |-> c, n |-> n]

RECURSIVE TextLen(_)
TextLen(t) == IF t = << >> THEN 0 ELSE Head(t).n + TextLen(Tail(t))

RECURSIVE Reverse(_)
Reverse(t) == IF t = << >> THEN << >> ELSE Append(Reverse(Tail(t)), Head(t))

\* a + b on strings
Concat(a, b) ==
    IF a = << >> THEN b
    ELSE IF b = << >> THEN a
    ELSE IF a[Len(a)].c = Head(b).c
         THEN SubSeq(a, 1, Len(a) - 1)
                  \o << Run(Head(b).c, a[Len(a)].n + Head(b).n) >> \o Tail(b)
         ELSE a \o b

RECURSIVE lstrip(_)
lstrip(t) == IF t # << >> /\ Head(t).c = "ws" THEN lstrip(Tail(t)) ELSE t

\* str.strip()
strip(t) == Reverse(lstrip(Reverse(lstrip(t))))

\* text[:n]
RECURSIVE Slice(_, _)
Slice(t, n) ==
    IF n <= 0 \/ t = << >> THEN << >>
    ELSE IF Head(t).n <= n
         THEN Concat(<< Head(t) >>, Slice(Tail(t), n - Head(t).n))
         ELSE << Run(Head(t).c, n) >>

\* text[-n:], used to state properties
LastChars(t, n) == Reverse(Slice(Reverse(t), n))

-----------------------------------------------------------------------------
(* utils.py *)

\* sanitize_filename(title): the cleaned title is the stem of every file name
sanitize_filename(title) == << title >>

(* Paths: [dir, stem, ext]; stem is the sanitized title followed by the
   suffixes appended to it. *)
Path(dir, stem, ext) == [dir |-> dir, stem |-> stem, ext |-> ext]

FileAt(files, path) == {f \in files : f.path = path}

exists(files, path) == FileAt(files, path) # {}

st_size(files, path) == (CHOOSE f \in files : f.path = path).size

\* writing a file replaces an existing file of the same path
WriteFile(files, path, size) ==
    {f \in files : f.path # path} \cup {[path |-> path, size |-> size]}

-----------------------------------------------------------------------------
(* summarizer.py *)

MinSummaryChars == 50

max_chars == 30000

AnalysisChars == 5000

\* "\n\n[...texto truncado...]"
TruncationMarker == << Run("ws", 2), Run("ch", 9), Run("ws", 1), Run("ch", 12) >>

lang_names(code) ==
    CASE code = "pt" -> "português brasileiro"
      [] code = "en" -> "inglês"
      [] code = "es" -> "espanhol"
      [] code = "fr" -> "francês"
      [] OTHER -> code

\* prompts[summary_type] without the fallback of prompts.get
_get_system_prompt_NoFallback(style, lang) ==
    [template |-> style,
     lang_instruction |-> IF lang # Unset THEN lang_names(lang) ELSE ""]

\* the prompt as [template, lang_instruction]; "" when no instruction is added
_get_system_prompt(style, lang) ==
    [template |-> IF style \in {"structured", "bullet_points", "paragraph"}
                  THEN style ELSE "structured",
     lang_instruction |-> IF lang # Unset THEN lang_names(lang) ELSE ""]

\* target_language or 'original'
TargetLanguage(lang) == IF lang # Unset THEN lang ELSE "original"

\* the length taken without trimming
TextTooShort_Untrimmed(text) == TextLen(text) < 50

\* len(text.strip()) < 50
TextTooShort(text) == TextLen(strip(text)) < MinSummaryChars

\* the text cut without the marker
LimitText_NoMarker(text) == IF TextLen(text) > 30000 THEN Slice(text, 30000) ELSE text

\* the text placed in the summary prompt
LimitText(text) ==
    IF TextLen(text) > max_chars
    THEN Concat(Slice(text, max_chars), TruncationMarker)
    ELSE text

\* len(summary) / len(text), kept as the exact quotient num/den
compression_ratio(summary, text) == [num |-> TextLen(summary), den |-> TextLen(text)]

(* create_summary with the backend's answer `resp` = [raises, text].
   Returns the result, the prompt sent (None when none was) and the backend
   operations invoked. *)
create_summary(text, style, lang, resp) ==
    IF TextTooShort(text)
    THEN [result |-> None, prompt |-> None, ops |-> << >>]
    ELSE LET limited == LimitText(text)
             full_prompt == [system |-> _get_system_prompt(style, lang), text |-> limited]
         IN  IF resp.raises
             THEN [result |-> None, prompt |-> full_prompt, ops |-> << "generate_content" >>]
             ELSE [result |-> [summary |-> resp.text,
                               original_length |-> TextLen(limited),
                               summary_length |-> TextLen(resp.text),
                               compression_ratio |-> compression_ratio(resp.text, limited),
                               model_used |-> "gemini-1.5-flash",
                               summary_type |-> style,
                               target_language |-> TargetLanguage(lang)],
                   prompt |-> full_prompt,
                   ops |-> << "generate_content" >>]

\* text[:5000]
AnalysisSample(text) == Slice(text, AnalysisChars)

\* the prompt of analyze_content
AnalysisPrompt(text, lang) ==
    [system |-> [template |-> "analysis",
                 lang_instruction |-> IF lang # Unset THEN lang_names(lang) ELSE ""],
     text |-> AnalysisSample(text)]

\* the dict analyze_content returns
AnalysisResult(lang, resp) ==
    [analysis |-> resp.text,
     model_used |-> "gemini-1.5-flash",
     target_language |-> TargetLanguage(lang)]

\* analyze_content given the minimum-length check of create_summary
analyze_content_MinLength(text, lang, resp) ==
    IF TextTooShort(text)
    THEN [result |-> None, prompt |-> None, ops |-> << >>]
    ELSE [result |-> IF resp.raises THEN None ELSE AnalysisResult(lang, resp),
          prompt |-> AnalysisPrompt(text, lang),
          ops |-> << "generate_content" >>]

(* analyze_content with the backend's answer `resp` = [raises, text] *)
analyze_content(text, lang, resp) ==
    [result |-> IF resp.raises THEN None ELSE AnalysisResult(lang, resp),
     prompt |-> AnalysisPrompt(text, lang),
     ops |-> << "generate_content" >>]

-----------------------------------------------------------------------------
(* transcriber.py *)

\* bytes in the unit of file_size_mb = st_size / 1024 / 1024
MiB == 1024 * 1024

GeminiLimitMB == 20

\* the size check made inclusive
TooLarge_Inclusive(size) == size >= 20 * 1024 * 1024

\* file_size_mb > 20; the division by 1024 * 1024 is exact, so compare in bytes
TooLarge(size) == size > GeminiLimitMB * MiB

\* the requested language dropped: the sentinel in every case
OutputLanguage_Sentinel(language) == "auto-detectado"

\* language or 'auto-detectado'
OutputLanguage(language) == IF language # Unset THEN language ELSE "auto-detectado"

\* the source language mentioned even when no target language is given
_build_transcription_prompt_SourceMention(target, source) ==
    [kind |-> IF target = Unset THEN "verbatim" ELSE "translate",
     target_name |-> IF target # Unset THEN lang_names(target) ELSE "",
     source_name |-> IF source # Unset THEN lang_names(source) ELSE ""]

\* the prompt as [kind, target_name, source_name]; "" for a name not mentioned
_build_transcription_prompt(target, source) ==
    IF target = Unset
    THEN [kind |-> "verbatim", target_name |-> "", source_name |-> ""]
    ELSE [kind |-> "translate",
          target_name |-> lang_names(target),
          source_name |-> IF source # Unset THEN lang_names(source) ELSE ""]

\* the generation call made a second time when it raises
BackendOps_RetryGenerate(b) ==
    CASE b.fail = "upload"   -> << "upload_file" >>
      [] b.fail = "generate" -> << "upload_file", "generate_content", "generate_content" >>
      [] OTHER               -> << "upload_file", "generate_content", "delete_file" >>

(* The backend operations transcribe_audio performs once the size check has
   passed, in program order, for the backend's behaviour `b` = [fail, text]:
   fail names the call that raises ("upload", "generate", "delete", "text")
   or is "none".  An exception skips everything up to the except clause. *)
BackendOps(b) ==
    CASE b.fail = "upload"   -> << "upload_file" >>
      [] b.fail = "generate" -> << "upload_file", "generate_content" >>
      [] OTHER               -> << "upload_file", "generate_content", "delete_file" >>

(* transcribe_audio.  Returns the result, the backend operations invoked, the
   prompt built (None when none was) and whether the uploaded copy is still
   held by the backend on return. *)
transcribe_audio(files, path, language, source, b) ==
    IF ~exists(files, path)
    THEN [result |-> None, ops |-> << >>, prompt |-> None, remote |-> FALSE]
    ELSE LET size == st_size(files, path) IN
         IF TooLarge(size)
         THEN [result |-> None, ops |-> << >>, prompt |-> None, remote |-> FALSE]
         ELSE LET ops == BackendOps(b)
                  uploaded == b.fail # "upload"
                  deleted == "delete_file" \in {ops[i] : i \in 1..Len(ops)} /\ b.fail # "delete"
              IN  [result |-> IF b.fail = "none"
                              THEN [text |-> b.text,
                                    file_path |-> path,
                                    file_size_mb |-> size,
                                    language |-> OutputLanguage(language),
                                    source_language |-> source,
                                    model_used |-> "gemini-1.5-flash"]
                              ELSE None,
                   ops |-> ops,
                   prompt |-> IF uploaded
                              THEN _build_transcription_prompt(language, source)
                              ELSE None,
                   remote |-> uploaded /\ ~deleted]

-----------------------------------------------------------------------------
(* converter.py *)

GeminiSafeMB == 18

AcceptedSuffixes == {"mp3", "wav", "flac"}

\* the size test left out
AlreadyOptimized_AnySize(path, size) == path.ext \in AcceptedSuffixes

\* the zero-cost path left out: every asset is transcoded
AlreadyOptimized_Never(path, size) == FALSE

\* the size test made strict
AlreadyOptimized_Strict(path, size) == path.ext \in AcceptedSuffixes /\ size < 18 * MiB

\* suffix in the accepted set and file_size_mb <= 18
AlreadyOptimized(path, size) == path.ext \in AcceptedSuffixes /\ size <= GeminiSafeMB * MiB

\* temp_files/<stem>_gemini_optimized.mp3
OptimizedPath(path) == Path("temp_files", Append(path.stem, "_gemini_optimized"), "mp3")

\* temp_files/<stem>_converted.wav
ConvertedPath(path) == Path("temp_files", Append(path.stem, "_converted"), "wav")

\* the ffmpeg.output arguments of the two transcodes
GeminiEncoding == [acodec |-> "mp3", audio_bitrate |-> "128k", ac |-> 1, ar |-> 22050]

WavEncoding == [acodec |-> "pcm_s16le", audio_bitrate |-> "-", ac |-> 1, ar |-> 16000]

\* the result of a converter call that did not reach the transcoder
NoTranscode(result, files) ==
    [result |-> result, files |-> files, ops |-> << >>, output |-> None, encoding |-> None]

(* convert_to_wav for the transcoder's behaviour `ff` = [raises, written,
   size]: whether ffmpeg.run raises, whether it leaves a file at the output
   path, and that file's size.  Returns the path (None for a failure), the
   files of temp_files afterwards, the operations invoked, the output path
   and the encoding asked for. *)
convert_to_wav(files, input_path, ff) ==
    IF ~exists(files, input_path)
    THEN NoTranscode(None, files)
    ELSE LET output_path == ConvertedPath(input_path)
             after == IF ff.written THEN WriteFile(files, output_path, ff.size) ELSE files
         IN  [result |-> IF ~ff.raises /\ exists(after, output_path)
                         THEN output_path ELSE None,
              files |-> after,
              ops |-> << "ffmpeg.run" >>,
              output |-> output_path,
              encoding |-> WavEncoding]

\* _optimize_for_whisper_internal: convert_to_wav at 16 kHz
_optimize_for_whisper_internal(files, input_path, ff) == convert_to_wav(files, input_path, ff)

(* _optimize_for_gemini_internal for the transcoder's behaviour `ff`; a
   failed transcode returns the input path. *)
_optimize_for_gemini_internal(files, input_path, ff) ==
    IF AlreadyOptimized(input_path, st_size(files, input_path))
    THEN NoTranscode(input_path, files)
    ELSE LET output_path == OptimizedPath(input_path)
             after == IF ff.written THEN WriteFile(files, output_path, ff.size) ELSE files
         IN  [result |-> IF ~ff.raises /\ exists(after, output_path)
                         THEN output_path ELSE input_path,
              files |-> after,
              ops |-> << "ffmpeg.run" >>,
              output |-> output_path,
              encoding |-> GeminiEncoding]

\* optimize_for_whisper(input_path, target_ai)
optimize_for_whisper(files, input_path, target_ai, ff) ==
    IF ~exists(files, input_path)
    THEN NoTranscode(None, files)
    ELSE IF target_ai = "gemini"
         THEN _optimize_for_gemini_internal(files, input_path, ff)
         ELSE _optimize_for_whisper_internal(files, input_path, ff)

\* optimize_for_gemini(input_path): optimize_for_whisper(input_path, target_ai='gemini')
optimize_for_gemini(files, input_path, ff) ==
    optimize_for_whisper(files, input_path, "gemini", ff)

-----------------------------------------------------------------------------
(* downloader.py *)

Title == "video"

\* the dict get_video_info returns
VideoInfo == [title |-> Title, author |-> "canal", duration |-> 61,
              duration_formatted |-> "01:01", views |-> 1000]

\* temp_files/<sanitized title>.<subtype>
DownloadPath(subtype) == Path("temp_files", sanitize_filename(Title), subtype)

(* download_audio for the platform's behaviour `d` = [ok, written, subtype,
   size]: whether the download completes, whether a file (a partial one when
   it does not complete) is left in temp_files, the stream's subtype and the
   file's size. *)
download_audio(files, d) ==
    LET output_path == DownloadPath(d.subtype)
    IN  [result |-> IF d.ok THEN output_path ELSE None,
         files |-> IF d.written THEN WriteFile(files, output_path, d.size) ELSE files]

\* download_audio for a video of the given title
download_audio_of(title, files, d) ==
    LET output_path == Path("temp_files", sanitize_filename(title), d.subtype)
    IN  [result |-> IF d.ok THEN output_path ELSE None,
         files |-> IF d.written THEN WriteFile(files, output_path, d.size) ELSE files]

\* the bytes still to come reported in place of the bytes downloaded
percentage_Remaining(total_size, bytes_remaining) ==
    [num |-> bytes_remaining * 100, den |-> total_size]

(* on_progress: percentage = bytes_downloaded / total_size * 100, kept as
   the exact quotient num / den *)
percentage(total_size, bytes_remaining) ==
    LET bytes_downloaded == total_size - bytes_remaining
    IN  [num |-> bytes_downloaded * 100, den |-> total_size]

(* on_progress(stream, chunk, bytes_remaining) for the call `d` of
   download_with_progress: the value goes to progress_callback when one was
   given and is printed otherwise *)
on_progress(d, bytes_remaining) ==
    LET value == percentage(d.filesize, bytes_remaining)
    IN  IF d.progress_callback
        THEN [d EXCEPT !.bytes_remaining = bytes_remaining,
                       !.reported = Append(@, value)]
        ELSE [d EXCEPT !.bytes_remaining = bytes_remaining,
                       !.printed = Append(@, value)]

\* only the .mp3 files of the directory deleted
cleanup_temp_files_Mp3Only(files, locked) ==
    {f \in files : f \in locked \/ f.path.ext # "mp3"}

\* the finalization step deleting nothing
cleanup_temp_files_KeepAll(files, locked) == files

\* the loop abandoned at the first deletion that raises
cleanup_temp_files_StopAtError(files, locked) == IF locked = {} THEN {} ELSE files

-----------------------------------------------------------------------------
(* utils.py: cleanup_temp_files.  `locked` are the files whose unlink raises;
   the error is reported and the loop goes on to the next file. *)
cleanup_temp_files(files, locked) == {f \in files : f \in locked}

-----------------------------------------------------------------------------
(* main.py: persistence *)

\* the test for an absent analysis left out
HasAnalysis_Unguarded(result_data) == TRUE

\* if result_data['analysis']:
HasAnalysis(result_data) == result_data.analysis # None

\* language_suffix: "" unless a target language was requested
language_suffix(result_data) ==
    IF result_data.language_settings.target_language # Unset
    THEN result_data.language_settings.target_language ELSE ""

(* the report's test for its 'translation applied' line: both keys of
   language_settings are always present, so lang_settings.get returns the
   stored value, None included, never the default 'Original' *)
TranslationApplied(lang_settings) ==
    LET source_lang == lang_settings.source_language
        target_lang == lang_settings.target_language
    IN  target_lang # "Original" /\ source_lang # target_lang

\* a file of output/; translation_line: the report holds the 'translation applied' line
OutputFile(kind, result_data, with_analysis, complete) ==
    [kind |-> kind,
     stem |-> sanitize_filename(result_data.video_info.title),
     lang |-> language_suffix(result_data),
     has_analysis |-> with_analysis,
     translation_line |-> kind = "relatorio"
                            /\ TranslationApplied(result_data.language_settings),
     complete |-> complete]

(* _create_full_report: the file is opened, then written section by section;
   subscripting an absent analysis raises inside the with block and leaves
   the sections written so far.  `failing`: the writes whose open() raises. *)
_create_full_report(data, failing) ==
    IF "relatorio" \in failing THEN {}
    ELSE IF HasAnalysis(data) /\ data.analysis = None
         THEN {OutputFile("relatorio", data, FALSE, FALSE)}
         ELSE {OutputFile("relatorio", data, HasAnalysis(data), TRUE)}

(* _save_results: the three artifacts, each writer catching its own errors;
   an exception raised in _save_results itself skips the writers after it. *)
_save_results(result_data, failing) ==
    LET transcript == IF "transcricao" \in failing THEN {}
                      ELSE {OutputFile("transcricao", result_data, FALSE, TRUE)}
        raised == HasAnalysis(result_data) /\ result_data.analysis = None
        summary == IF "resumo" \in failing THEN {}
                   ELSE {OutputFile("resumo", result_data, HasAnalysis(result_data), TRUE)}
    IN  IF raised THEN transcript
        ELSE transcript \cup summary \cup _create_full_report(result_data, failing)

\* <safe_title>_<timestamp><language_suffix>_<kind>: the name of an artifact
ArtifactName(file, timestamp) ==
    [stem |-> file.stem, timestamp |-> timestamp, lang |-> file.lang, kind |-> file.kind]

(* output/ after _save_results has written `files` at `timestamp` during run
   number `run`: open(path, 'w') replaces a file of the same name *)
WriteArtifacts(dir, files, timestamp, run) ==
    LET names == {ArtifactName(f, timestamp) : f \in files}
    IN  {a \in dir : a.name \notin names}
            \cup {[name |-> ArtifactName(f, timestamp), run |-> run] : f \in files}

\* _save_results has no return statement: its caller receives None
_save_results_return == None

-----------------------------------------------------------------------------
(* Bounds and the environment's choices *)

\* longest summary / analysis text the backend returns, in characters
MaxResponseLen == 1

\* most artifact writes that fail in one run
MaxWriteFailures == 1

\* most files whose deletion fails in one cleanup
MaxLocked == 1

\* most form submissions over all sessions
MaxSubmissions == 3

\* most successive runs of analyze_video writing to output/
MaxRuns == 2

\* latest second of the clock
MaxClock == 1

\* largest audio stream of a download observed chunk by chunk, in bytes
MaxFileSize == 5

\* most calls a direct client makes on one AudioConverter
MaxConversions == 2

\* most tokens of a string handed to validate_youtube_url
MaxUrlTokens == 3

Chars(n) == IF n = 0 THEN << >> ELSE << Run("ch", n) >>

Padded(lead, n, trail) == << Run("ws", lead), Run("ch", n), Run("ws", trail) >>

\* transcripts the backend returns: around the 50, 5,000 and 30,000 marks
TranscriptTexts ==
    { Chars(30),                                \* 30 characters
      Padded(3, MinSummaryChars - 1, 4),        \* 56 characters, 49 trimmed
      Padded(2, MinSummaryChars, 1),            \* 53 characters, 50 trimmed
      Padded(1, AnalysisChars, 1),              \* 5,002 characters
      Padded(1, max_chars - 2, 1),              \* exactly 30,000 characters
      Padded(3, max_chars - 10, 8) }            \* 30,001 characters

\* what the backend does during transcribe_audio
TranscribeBehaviours ==
    [fail : {"upload", "generate", "delete", "text"}, text : {<< >>}]
        \cup [fail : {"none"}, text : TranscriptTexts]

\* what the backend does on a text generation call
GenerateBehaviours ==
    {[raises |-> TRUE, text |-> << >>]}
        \cup {[raises |-> FALSE, text |-> Chars(n)] : n \in 0..MaxResponseLen}

DownloadSizes == {GeminiSafeMB * MiB, GeminiLimitMB * MiB, 25 * MiB}

DownloadBehaviours ==
    {[ok |-> FALSE, written |-> w, subtype |-> "mp4", size |-> 1] : w \in BOOLEAN}
        \cup [ok : {TRUE}, written : {TRUE}, subtype : {"mp4", "mp3"}, size : DownloadSizes]

\* what the transcoder does: raise (leaving nothing or a partial file), produce
\* nothing, or write a file
FfmpegBehaviours ==
    {[raises |-> TRUE, written |-> FALSE, size |-> 0],
     [raises |-> TRUE, written |-> TRUE, size |-> 1],
     [raises |-> FALSE, written |-> FALSE, size |-> 0],
     [raises |-> FALSE, written |-> TRUE, size |-> 15 * MiB],
     [raises |-> FALSE, written |-> TRUE, size |-> GeminiLimitMB * MiB + 1]}

ArtifactKinds == {"transcricao", "resumo", "relatorio"}

NoPrompts == [transcribe |-> None, summarize |-> None, analyze |-> None]

Call(op, lang) == [op |-> op, lang |-> lang]

\* the backend operations of a stage, as entries of `calls`
RECURSIVE Calls(_)
Calls(ops) == IF ops = << >> THEN << >> ELSE << Call(Head(ops), "-") >> \o Calls(Tail(ops))

-----------------------------------------------------------------------------
Init ==
    /\ entry \in {"analyze_video", "app"}
    /\ pc = "start"
    /\ youtube_url \in Urls
    /\ style_arg \in StyleArgs(entry)
    /\ summary_type = BindSummaryType(style_arg)
    /\ target_language \in Languages \cup {Unset}
    /\ source_language \in SourceChoices
    /\ video_info = None
    /\ audio_path = None
    /\ converted_path = None
    /\ transcript_data = None
    /\ summary_data = None
    /\ analysis_data = None
    /\ outcome = "running"
    /\ final_result = None
    /\ tempFiles = {}
    /\ outputFiles = {}
    /\ backendFiles = {}
    /\ prompts = NoPrompts
    /\ write_errors = {}
    /\ unlink_errors = {}
    /\ calls = << >>
    /\ persisted = None
    /\ conversions = << >>
    /\ NoStandalone

inputs == << entry, youtube_url, style_arg, summary_type, target_language,
             source_language >>

locals == << video_info, audio_path, converted_path, transcript_data, summary_data,
             analysis_data >>

\* the record dropped on the way out of the try block
Return_None(value) ==
    /\ final_result' = None
    /\ outcome' = "returned"
    /\ pc' = "cleanup"

\* `return value` inside the try block: the finally clause runs next
Return(value) ==
    /\ final_result' = value
    /\ outcome' = "returned"
    /\ pc' = "cleanup"

Continue(next) ==
    /\ pc' = next
    /\ UNCHANGED << final_result, outcome >>

-----------------------------------------------------------------------------
(* main.py: YouTubeAnalyzer.analyze_video, one action per step *)

\* lines 56-58: the URL check, before the try block
AV_Validate ==
    /\ entry = "analyze_video" /\ pc = "start"
    /\ IF validate_youtube_url(youtube_url)
       THEN Continue("metadata")
       ELSE /\ final_result' = None
            /\ outcome' = "returned"
            /\ pc' = "done"
    /\ UNCHANGED << inputs, locals, tempFiles, outputFiles, backendFiles, prompts, calls >>
    /\ UNCHANGED << write_errors, unlink_errors, persisted, conversions, standalone >>

\* lines 61-65
AV_MetadataFetch ==
    /\ entry = "analyze_video" /\ pc = "metadata"
    /\ \E info \in {None, VideoInfo} :
         /\ video_info' = info
         /\ calls' = Append(calls, Call("get_video_info", "-"))
         /\ IF info = None THEN Return(None) ELSE Continue("download")
    /\ UNCHANGED << inputs, audio_path, converted_path, transcript_data, summary_data,
                    analysis_data, tempFiles, outputFiles, backendFiles, prompts >>
    /\ UNCHANGED << write_errors, unlink_errors, persisted, conversions, standalone >>

\* lines 67-71
AV_AudioAcquire ==
    /\ entry = "analyze_video" /\ pc = "download"
    /\ \E d \in DownloadBehaviours :
         LET r == download_audio(tempFiles, d) IN
         /\ audio_path' = r.result
         /\ tempFiles' = r.files
         /\ calls' = Append(calls, Call("download_audio", "-"))
         /\ IF r.result = None THEN Return(None) ELSE Continue("normalize")
    /\ UNCHANGED << inputs, video_info, converted_path, transcript_data, summary_data,
                    analysis_data, outputFiles, backendFiles, prompts >>
    /\ UNCHANGED << write_errors, unlink_errors, persisted, conversions, standalone >>

\* lines 73-78
AV_Normalize ==
    /\ entry = "analyze_video" /\ pc = "normalize"
    /\ \E ff \in FfmpegBehaviours :
         LET r == optimize_for_gemini(tempFiles, audio_path, ff) IN
         /\ converted_path' = r.result
         /\ tempFiles' = r.files
         /\ calls' = Append(calls, Call("optimize_for_gemini", "-")) \o Calls(r.ops)
         /\ IF r.result = None THEN Return(None) ELSE Continue("transcribe")
    /\ UNCHANGED << inputs, video_info, audio_path, transcript_data, summary_data,
                    analysis_data, outputFiles, backendFiles, prompts >>
    /\ UNCHANGED << write_errors, unlink_errors, persisted, conversions, standalone >>

\* lines 80-90
AV_Transcribe ==
    /\ entry = "analyze_video" /\ pc = "transcribe"
    /\ \E b \in TranscribeBehaviours :
         LET r == transcribe_audio(tempFiles, converted_path, target_language,
                                   source_language, b) IN
         /\ transcript_data' = r.result
         /\ backendFiles' = IF r.remote THEN backendFiles \cup {converted_path}
                            ELSE backendFiles
         /\ prompts' = [prompts EXCEPT !.transcribe = r.prompt]
         /\ calls' = Append(calls, Call("transcribe_audio", target_language)) \o Calls(r.ops)
         /\ IF r.result = None THEN Return(None) ELSE Continue("summarize")
    /\ UNCHANGED << inputs, video_info, audio_path, converted_path, summary_data,
                    analysis_data, tempFiles, outputFiles >>
    /\ UNCHANGED << write_errors, unlink_errors, persisted, conversions, standalone >>

\* the check on the summary left out: the run goes on without a summary
SummaryFailed_Unchecked(data) == FALSE

\* `if not summary_data`, lines 102-103
SummaryFailed(data) == data = None

\* lines 92-103
AV_Summarize ==
    /\ entry = "analyze_video" /\ pc = "summarize"
    /\ \E resp \in GenerateBehaviours :
         LET r == create_summary(transcript_data.text, summary_type, target_language, resp) IN
         /\ summary_data' = r.result
         /\ prompts' = [prompts EXCEPT !.summarize = r.prompt]
         /\ calls' = Append(calls, Call("create_summary", target_language)) \o Calls(r.ops)
         /\ IF SummaryFailed(r.result) THEN Return(None) ELSE Continue("analyze")
    /\ UNCHANGED << inputs, video_info, audio_path, converted_path, transcript_data,
                    analysis_data, tempFiles, outputFiles, backendFiles >>
    /\ UNCHANGED << write_errors, unlink_errors, persisted, conversions, standalone >>

\* lines 105-110
AV_Analyze ==
    /\ entry = "analyze_video" /\ pc = "analyze"
    /\ \E resp \in GenerateBehaviours :
         LET r == analyze_content(transcript_data.text, target_language, resp) IN
         /\ analysis_data' = r.result
         /\ prompts' = [prompts EXCEPT !.analyze = r.prompt]
         /\ calls' = Append(calls, Call("analyze_content", target_language)) \o Calls(r.ops)
    /\ Continue("persist")
    /\ UNCHANGED << inputs, video_info, audio_path, converted_path, transcript_data,
                    summary_data, tempFiles, outputFiles, backendFiles >>
    /\ UNCHANGED << write_errors, unlink_errors, persisted, conversions, standalone >>

\* lines 113-128
FinalResult ==
    [video_info |-> video_info,
     transcript |-> transcript_data,
     summary |-> summary_data,
     analysis |-> analysis_data,
     ai_provider |-> "Google Gemini",
     language_settings |-> [source_language |-> source_language,
                            target_language |-> target_language],
     files_processed |-> [original_audio |-> audio_path,
                          converted_audio |-> converted_path]]

\* lines 112-140
AV_Persist ==
    /\ entry = "analyze_video" /\ pc = "persist"
    /\ \E failing \in SUBSET ArtifactKinds :
         /\ Cardinality(failing) <= MaxWriteFailures
         /\ outputFiles' = outputFiles \cup _save_results(FinalResult, failing)
         /\ write_errors' = failing
    /\ persisted' = _save_results_return
    /\ calls' = Append(calls, Call("_save_results", "-"))
    /\ Return(FinalResult)
    /\ UNCHANGED << inputs, locals, tempFiles, backendFiles, prompts >>
    /\ UNCHANGED << unlink_errors, conversions, standalone >>

\* lines 142-147: an exception escapes a stage inside the try block; an
\* Exception is caught and None returned, anything else propagates
AV_Exception ==
    /\ entry = "analyze_video"
    /\ pc \in {"metadata", "download", "normalize", "transcribe", "summarize",
               "analyze", "persist"}
    /\ \E caught \in BOOLEAN :
         outcome' = IF caught THEN "caught" ELSE "raised"
    /\ final_result' = None
    /\ pc' = "cleanup"
    /\ UNCHANGED << inputs, locals, tempFiles, outputFiles, backendFiles, prompts, calls >>
    /\ UNCHANGED << write_errors, unlink_errors, persisted, conversions, standalone >>

\* lines 148-150: the finally clause
AV_Cleanup ==
    /\ entry = "analyze_video" /\ pc = "cleanup"
    /\ \E locked \in SUBSET tempFiles :
         /\ Cardinality(locked) <= MaxLocked
         /\ tempFiles' = cleanup_temp_files(tempFiles, locked)
         /\ unlink_errors' = {f.path : f \in locked}
    /\ calls' = Append(calls, Call("cleanup_temp_files", "-"))
    /\ pc' = "done"
    /\ UNCHANGED << inputs, locals, outcome, final_result, outputFiles, backendFiles,
                    prompts >>
    /\ UNCHANGED << write_errors, persisted, conversions, standalone >>

-----------------------------------------------------------------------------
(* app.py: the form's inline pipeline, one action per step *)

\* st.stop() inside the try block: the finally clause runs next
Stop ==
    /\ outcome' = "stopped"
    /\ pc' = "cleanup"
    /\ UNCHANGED final_result

\* lines 118-123
App_Validate ==
    /\ entry = "app" /\ pc = "start"
    /\ IF youtube_url # << >> /\ validate_youtube_url(youtube_url)
       THEN Continue("metadata")
       ELSE /\ outcome' = "rejected"
            /\ pc' = "done"
            /\ UNCHANGED final_result
    /\ UNCHANGED << inputs, locals, tempFiles, outputFiles, backendFiles, prompts, calls >>
    /\ UNCHANGED << write_errors, unlink_errors, persisted, conversions, standalone >>

\* lines 135-142
App_MetadataFetch ==
    /\ entry = "app" /\ pc = "metadata"
    /\ \E info \in {None, VideoInfo} :
         /\ video_info' = info
         /\ calls' = Append(calls, Call("get_video_info", "-"))
         /\ IF info = None THEN Stop ELSE Continue("download")
    /\ UNCHANGED << inputs, audio_path, converted_path, transcript_data, summary_data,
                    analysis_data, tempFiles, outputFiles, backendFiles, prompts >>
    /\ UNCHANGED << write_errors, unlink_errors, persisted, conversions, standalone >>

\* lines 144-151
App_AudioAcquire ==
    /\ entry = "app" /\ pc = "download"
    /\ \E d \in DownloadBehaviours :
         LET r == download_audio(tempFiles, d) IN
         /\ audio_path' = r.result
         /\ tempFiles' = r.files
         /\ calls' = Append(calls, Call("download_audio", "-"))
         /\ IF r.result = None THEN Stop ELSE Continue("normalize")
    /\ UNCHANGED << inputs, video_info, converted_path, transcript_data, summary_data,
                    analysis_data, outputFiles, backendFiles, prompts >>
    /\ UNCHANGED << write_errors, unlink_errors, persisted, conversions, standalone >>

\* lines 153-160
App_Normalize ==
    /\ entry = "app" /\ pc = "normalize"
    /\ \E ff \in FfmpegBehaviours :
         LET r == optimize_for_gemini(tempFiles, audio_path, ff) IN
         /\ converted_path' = r.result
         /\ tempFiles' = r.files
         /\ calls' = Append(calls, Call("optimize_for_gemini", "-")) \o Calls(r.ops)
         /\ IF r.result = None THEN Stop ELSE Continue("transcribe")
    /\ UNCHANGED << inputs, video_info, audio_path, transcript_data, summary_data,
                    analysis_data, outputFiles, backendFiles, prompts >>
    /\ UNCHANGED << write_errors, unlink_errors, persisted, conversions, standalone >>

\* lines 162-175
App_Transcribe ==
    /\ entry = "app" /\ pc = "transcribe"
    /\ \E b \in TranscribeBehaviours :
         LET r == transcribe_audio(tempFiles, converted_path, target_language,
                                   source_language, b) IN
         /\ transcript_data' = r.result
         /\ backendFiles' = IF r.remote THEN backendFiles \cup {converted_path}
                            ELSE backendFiles
         /\ prompts' = [prompts EXCEPT !.transcribe = r.prompt]
         /\ calls' = Append(calls, Call("transcribe_audio", target_language)) \o Calls(r.ops)
         /\ IF r.result = None THEN Stop ELSE Continue("summarize")
    /\ UNCHANGED << inputs, video_info, audio_path, converted_path, summary_data,
                    analysis_data, tempFiles, outputFiles >>
    /\ UNCHANGED << write_errors, unlink_errors, persisted, conversions, standalone >>

\* lines 177-186: the summary is not tested; the analysis follows in any case
App_Summarize ==
    /\ entry = "app" /\ pc = "summarize"
    /\ \E resp \in GenerateBehaviours :
         LET r == create_summary(transcript_data.text, summary_type, target_language, resp) IN
         /\ summary_data' = r.result
         /\ prompts' = [prompts EXCEPT !.summarize = r.prompt]
         /\ calls' = Append(calls, Call("create_summary", target_language)) \o Calls(r.ops)
    /\ Continue("analyze")
    /\ UNCHANGED << inputs, video_info, audio_path, converted_path, transcript_data,
                    analysis_data, tempFiles, outputFiles, backendFiles >>
    /\ UNCHANGED << write_errors, unlink_errors, persisted, conversions, standalone >>

\* lines 188-276: the analysis, the combined record and its display
App_Analyze ==
    /\ entry = "app" /\ pc = "analyze"
    /\ \E resp \in GenerateBehaviours :
         LET r == analyze_content(transcript_data.text, target_language, resp) IN
         /\ analysis_data' = r.result
         /\ prompts' = [prompts EXCEPT !.analyze = r.prompt]
         /\ calls' = Append(calls, Call("analyze_content", target_language)) \o Calls(r.ops)
         /\ final_result' = [video_info |-> video_info,
                             transcript |-> transcript_data,
                             summary |-> summary_data,
                             analysis |-> r.result,
                             ai_provider |-> "Google Gemini",
                             language_settings |-> [source_language |-> source_language,
                                                    target_language |-> target_language]]
    /\ outcome' = "displayed"
    /\ pc' = "cleanup"
    /\ UNCHANGED << inputs, video_info, audio_path, converted_path, transcript_data,
                    summary_data, tempFiles, outputFiles, backendFiles >>
    /\ UNCHANGED << write_errors, unlink_errors, persisted, conversions, standalone >>

\* lines 278-280: an exception escapes a stage inside the try block
App_Exception ==
    /\ entry = "app"
    /\ pc \in {"metadata", "download", "normalize", "transcribe", "summarize", "analyze"}
    /\ outcome' = "raised"
    /\ pc' = "cleanup"
    /\ UNCHANGED << inputs, locals, final_result, tempFiles, outputFiles, backendFiles,
                    prompts, calls >>
    /\ UNCHANGED << write_errors, unlink_errors, persisted, conversions, standalone >>

\* lines 281-284: the finally clause
App_Cleanup ==
    /\ entry = "app" /\ pc = "cleanup"
    /\ \E locked \in SUBSET tempFiles :
         /\ Cardinality(locked) <= MaxLocked
         /\ tempFiles' = cleanup_temp_files(tempFiles, locked)
         /\ unlink_errors' = {f.path : f \in locked}
    /\ calls' = Append(calls, Call("cleanup_temp_files", "-"))
    /\ pc' = "done"
    /\ UNCHANGED << inputs, locals, outcome, final_result, outputFiles, backendFiles,
                    prompts >>
    /\ UNCHANGED << write_errors, persisted, conversions, standalone >>

-----------------------------------------------------------------------------
Next ==
    \/ AV_Validate
    \/ AV_MetadataFetch
    \/ AV_AudioAcquire
    \/ AV_Normalize
    \/ AV_Transcribe
    \/ AV_Summarize
    \/ AV_Analyze
    \/ AV_Persist
    \/ AV_Exception
    \/ AV_Cleanup
    \/ App_Validate
    \/ App_MetadataFetch
    \/ App_AudioAcquire
    \/ App_Normalize
    \/ App_Transcribe
    \/ App_Summarize
    \/ App_Analyze
    \/ App_Exception
    \/ App_Cleanup

Spec == Init /\ [][Next]_vars

-----------------------------------------------------------------------------
(* converter.py used directly: a client calls the public methods of one
   AudioConverter on an asset of temp_files, one action per method. *)

AssetSizes == {15 * MiB, GeminiSafeMB * MiB, GeminiSafeMB * MiB + 1}

\* the assets a client hands to the converter
Assets ==
    {[path |-> Path("temp_files", sanitize_filename(Title), ext), size |-> size] :
        ext \in {"mp3", "flac", "mp4"}, size \in AssetSizes}

ConvInit ==
    /\ entry = "converter"
    /\ pc = "ready"
    /\ \E asset \in Assets :
         /\ audio_path = asset.path
         /\ tempFiles \in {{asset}, {}}
    /\ youtube_url = ShortLinkUrl
    /\ style_arg = Omitted
    /\ summary_type = BindSummaryType(style_arg)
    /\ target_language = Unset
    /\ source_language = Unset
    /\ video_info = None
    /\ converted_path = None
    /\ transcript_data = None
    /\ summary_data = None
    /\ analysis_data = None
    /\ outcome = "running"
    /\ final_result = None
    /\ outputFiles = {}
    /\ backendFiles = {}
    /\ prompts = NoPrompts
    /\ write_errors = {}
    /\ unlink_errors = {}
    /\ calls = << >>
    /\ persisted = None
    /\ conversions = << >>
    /\ NoStandalone

\* one call: what was passed, what the transcoder did, what came back
Conversion(op, input, r, ff) ==
    [op |-> op,
     input |-> input,
     before |-> tempFiles,
     transcoded |-> r.ops # << >>,
     ff |-> IF r.ops # << >> THEN ff ELSE None,
     output |-> r.output,
     encoding |-> r.encoding,
     after |-> r.files,
     result |-> r.result]

\* the call returns to the client
Converted(op, input, r, ff) ==
    /\ conversions' = Append(conversions, Conversion(op, input, r, ff))
    /\ converted_path' = r.result
    /\ tempFiles' = r.files
    /\ calls' = Append(calls, Call(op, "-")) \o Calls(r.ops)
    /\ UNCHANGED << inputs, pc, video_info, audio_path, transcript_data, summary_data,
                    analysis_data, outcome, final_result, outputFiles, backendFiles,
                    prompts, write_errors, unlink_errors, persisted, standalone >>

\* converter.optimize_for_gemini(audio_path)
Conv_OptimizeForGemini ==
    /\ entry = "converter" /\ Len(conversions) < MaxConversions
    /\ \E ff \in FfmpegBehaviours :
         Converted("optimize_for_gemini", audio_path,
                   optimize_for_gemini(tempFiles, audio_path, ff), ff)

\* converter.optimize_for_gemini(converted_path): the reference the previous
\* optimize_for_gemini returned is handed to optimize_for_gemini again
Conv_OptimizeOwnOutput ==
    /\ entry = "converter" /\ Len(conversions) < MaxConversions
    /\ conversions # << >>
    /\ conversions[Len(conversions)].op = "optimize_for_gemini"
    /\ converted_path # None
    /\ \E ff \in FfmpegBehaviours :
         Converted("optimize_for_gemini", converted_path,
                   optimize_for_gemini(tempFiles, converted_path, ff), ff)

\* converter.optimize_for_whisper(audio_path), target_ai left to its default
Conv_OptimizeForWhisper ==
    /\ entry = "converter" /\ Len(conversions) < MaxConversions
    /\ \E ff \in FfmpegBehaviours :
         Converted("optimize_for_whisper", audio_path,
                   optimize_for_whisper(tempFiles, audio_path, "whisper", ff), ff)

\* converter.convert_to_wav(audio_path)
Conv_ConvertToWav ==
    /\ entry = "converter" /\ Len(conversions) < MaxConversions
    /\ \E ff \in FfmpegBehaviours :
         Converted("convert_to_wav", audio_path, convert_to_wav(tempFiles, audio_path, ff), ff)

ConvNext ==
    \/ Conv_OptimizeForGemini
    \/ Conv_OptimizeOwnOutput
    \/ Conv_OptimizeForWhisper
    \/ Conv_ConvertToWav

ConverterSpec == ConvInit /\ [][ConvNext]_vars

-----------------------------------------------------------------------------
(* utils.py: validate_youtube_url called on arbitrary strings.  A string is a
   sequence of tokens; no pattern straddles two tokens of UrlTokens, so a
   pattern is found in the string exactly when one of its tokens is one. *)

UrlTokens == {"https://", "ftp://", "www.", "vimeo.com/", "123", "abc123"}
                 \cup youtube_patterns

UrlStrings == UNION {[1..n -> UrlTokens] : n \in 0..MaxUrlTokens}

ValidInit ==
    /\ entry = "validate_youtube_url"
    /\ pc = "start"
    /\ youtube_url \in UrlStrings
    /\ style_arg = Omitted
    /\ summary_type = BindSummaryType(style_arg)
    /\ target_language = Unset
    /\ source_language = Unset
    /\ video_info = None
    /\ audio_path = None
    /\ converted_path = None
    /\ transcript_data = None
    /\ summary_data = None
    /\ analysis_data = None
    /\ outcome = "running"
    /\ final_result = None
    /\ tempFiles = {}
    /\ outputFiles = {}
    /\ backendFiles = {}
    /\ prompts = NoPrompts
    /\ write_errors = {}
    /\ unlink_errors = {}
    /\ calls = << >>
    /\ persisted = None
    /\ conversions = << >>
    /\ NoStandalone

\* validate_youtube_url(youtube_url) returns True or False
Validate_Call ==
    /\ entry = "validate_youtube_url" /\ pc = "start"
    /\ outcome' = IF validate_youtube_url(youtube_url) THEN "accepted" ELSE "rejected"
    /\ pc' = "done"
    /\ UNCHANGED << inputs, locals, final_result, tempFiles, outputFiles, backendFiles,
                    prompts, write_errors, unlink_errors, calls, persisted, conversions, standalone >>

ValidNext == Validate_Call

ValidatorSpec == ValidInit /\ [][ValidNext]_vars

-----------------------------------------------------------------------------
(* Properties *)

Ops == {calls[i].op : i \in DOMAIN calls}

Called(op) == op \in Ops

\* the stage operations of the pipeline, in the order of analyze_video
StageOrder == << "get_video_info", "download_audio", "optimize_for_gemini",
                 "transcribe_audio", "create_summary", "analyze_content", "_save_results" >>

IsStageCall(c) == \E k \in DOMAIN StageOrder : StageOrder[k] = c.op

\* the stage operations invoked so far, in order
StageCalls == SelectSeq(calls, IsStageCall)

\* the result of the k-th stage, for the stages whose failure ends the run
StageResult(k) ==
    CASE k = 1 -> video_info
      [] k = 2 -> audio_path
      [] k = 3 -> converted_path
      [] k = 4 -> transcript_data
      [] k = 5 -> summary_data

(* C1: in analyze_video the stages are invoked in the fixed order
   MetadataFetch, AudioAcquire, Normalize, Transcribe, Summarize, Analyze,
   Persist, each only once the previous stage has produced a result; when one
   of the first five yields a failure, no later stage operation is invoked and
   the run returns None. *)
C1_StageOrderAndShortCircuit ==
    entry = "analyze_video" =>
        /\ Len(StageCalls) <= Len(StageOrder)
        /\ \A k \in DOMAIN StageCalls : StageCalls[k].op = StageOrder[k]
        /\ \A k \in 1..5 :
             Len(StageCalls) > k => StageResult(k) # None
        /\ \A k \in 1..5 :
             (Len(StageCalls) >= k /\ StageResult(k) = None /\ outcome \notin {"caught", "raised"})
                 => /\ Len(StageCalls) = k
                    /\ pc \in {"cleanup", "done"}
                    /\ outcome = "returned"
                    /\ final_result = None

\* a run of analyze_video that ended at a failed Summarize stage
C1_Witness ==
    /\ entry = "analyze_video" /\ pc = "done" /\ outcome = "returned"
    /\ Called("create_summary") /\ summary_data = None
    /\ ~Called("analyze_content") /\ final_result = None

\* the run passed the URL check and entered the try block
EnteredTry == validate_youtube_url(youtube_url)

CleanupCalls == SelectSeq(calls, LAMBDA c : c.op = "cleanup_temp_files")

(* C2, as stated: after any run of analyze_video (success, stage failure or
   exception) the transient media directory holds no file of the run. *)
C2_NoTransientFilesAfterRun ==
    (entry = "analyze_video" /\ pc = "done") => tempFiles = {}

(* C2, amended: every run of analyze_video that enters the try block ends
   with exactly one call of cleanup_temp_files, made after the terminal stage
   whatever the outcome; a file of the run is left in the transient directory
   only if its deletion raised (which the cleanup reports and skips). *)
C2_CleanupAlwaysRunsBestEffort ==
    (entry = "analyze_video" /\ pc = "done") =>
        IF EnteredTry
        THEN /\ Len(CleanupCalls) = 1
             /\ calls[Len(calls)].op = "cleanup_temp_files"
             /\ \A f \in tempFiles : f.path \in unlink_errors
        ELSE tempFiles = {} /\ calls = << >>

\* a run that ended in an unhandled exception after the download and the
\* transcode, with both files deleted
C2_Witness ==
    /\ entry = "analyze_video" /\ pc = "done" /\ outcome = "raised"
    /\ audio_path # None /\ converted_path # None /\ converted_path # audio_path
    /\ tempFiles = {}

LanguageStages == {"transcribe_audio", "create_summary", "analyze_content"}

(* C3: a run of analyze_video given a target language L passes L to the
   Transcribe, Summarize and Analyze stages, and the transcript's language,
   the summary's and the analysis's target_language and
   language_settings.target_language of the returned record all equal L. *)
C3_LanguagePropagation ==
    (entry = "analyze_video" /\ target_language # Unset) =>
        /\ \A i \in DOMAIN calls :
             calls[i].op \in LanguageStages => calls[i].lang = target_language
        /\ transcript_data # None => transcript_data.language = target_language
        /\ summary_data # None => summary_data.target_language = target_language
        /\ analysis_data # None => analysis_data.target_language = target_language
        /\ final_result # None =>
             /\ final_result.transcript.language = target_language
             /\ final_result.summary.target_language = target_language
             /\ final_result.analysis # None =>
                    final_result.analysis.target_language = target_language
             /\ final_result.language_settings.target_language = target_language

\* a record returned for target language "es", analysis included
C3_Witness ==
    /\ entry = "analyze_video" /\ pc = "done" /\ target_language = "es"
    /\ final_result # None /\ final_result.analysis # None
    /\ final_result.transcript.language = "es"
    /\ final_result.analysis.target_language = "es"

BackendCalls == {"upload_file", "generate_content", "delete_file"}

(* C4: transcribe_audio on an asset larger than 20 MB returns no result and
   makes no backend call (no upload, generation or delete); an asset of
   exactly 20 MB passes the size check and is uploaded. *)
C4_TooLargeBeforeBackend ==
    (Called("transcribe_audio") /\ exists(tempFiles, converted_path)) =>
        LET size == st_size(tempFiles, converted_path) IN
        /\ size > 20 * 1024 * 1024 =>
             /\ transcript_data = None
             /\ Ops \cap BackendCalls = {}
             /\ backendFiles = {}
             /\ prompts.transcribe = None
        /\ size = 20 * 1024 * 1024 => Called("upload_file")

\* transcribe_audio has rejected a 25 MB asset
C4_Witness ==
    /\ Called("transcribe_audio") /\ exists(tempFiles, converted_path)
    /\ st_size(tempFiles, converted_path) = 25 * 1024 * 1024
    /\ transcript_data = None /\ ~Called("upload_file")

(* C5: once transcribe_audio has uploaded the asset, the backend-side copy is
   deleted before transcribe_audio returns, whatever the generation call
   does. *)
C5_BackendCopyDeletedBeforeReturn ==
    (Called("transcribe_audio") /\ Called("generate_content")) => Called("delete_file")

(* C6: when analyze_content fails after Summarize succeeded, analyze_video
   still persists and returns a record whose analysis is absent; every
   artifact whose file could be opened is written completely, and none holds
   an analysis section. *)
C6_AnalyzeFailureTolerated ==
    (entry = "analyze_video" /\ Called("analyze_content") /\ analysis_data = None
        /\ outcome = "returned") =>
        /\ Called("_save_results")
        /\ final_result # None
        /\ final_result.analysis = None
        /\ final_result.summary = summary_data /\ final_result.summary # None
        /\ final_result.transcript = transcript_data
        /\ {f.kind : f \in outputFiles} = ArtifactKinds \ write_errors
        /\ \A f \in outputFiles : f.complete /\ ~f.has_analysis

\* a record without analysis returned, its three artifacts written
C6_Witness ==
    /\ entry = "analyze_video" /\ pc = "done" /\ outcome = "returned"
    /\ Called("analyze_content") /\ analysis_data = None
    /\ final_result # None /\ final_result.analysis = None
    /\ {f.kind : f \in outputFiles} = ArtifactKinds

\* the transcript handed to create_summary is below the minimum length
ShortTranscript ==
    /\ Called("create_summary")
    /\ TextLen(strip(transcript_data.text)) < 50

(* C7, as stated: for a transcript whose trimmed length is below 50,
   summarize fails and analyze still executes on the same text. *)
C7_AnalyzeRunsAfterTextTooShort ==
    (pc = "done" /\ ShortTranscript /\ outcome \notin {"caught", "raised"}) =>
        /\ summary_data = None
        /\ Called("analyze_content")

(* C7, amended: for a transcript whose trimmed length is below 50,
   create_summary fails without a generation call.  analyze_content has no
   minimum length: where it is invoked on that text (the form's pipeline
   invokes it whatever the summary's outcome) it issues its generation call
   on the first 5,000 characters.  analyze_video ends the run at the failed
   summary, returns None and never invokes analyze_content. *)
C7_TextTooShortAndAnalyze ==
    ShortTranscript =>
        /\ summary_data = None
        /\ prompts.summarize = None
        /\ entry = "analyze_video" =>
             /\ ~Called("analyze_content")
             /\ pc \in {"cleanup", "done"}
             /\ final_result = None
        /\ (entry = "app" /\ outcome = "displayed") =>
             /\ Called("analyze_content")
             /\ prompts.analyze # None
             /\ prompts.analyze.text = Slice(transcript_data.text, 5000)

\* the form's pipeline: no summary for a 30-character transcript, an analysis returned
C7_Witness ==
    /\ entry = "app" /\ pc = "done"
    /\ ShortTranscript /\ TextLen(transcript_data.text) = 30
    /\ summary_data = None /\ analysis_data # None

\* create_summary issued its generation call
SummaryGenerated ==
    \E i \in DOMAIN calls :
        /\ calls[i].op = "create_summary"
        /\ i < Len(calls)
        /\ calls[i + 1].op = "generate_content"

(* C8: create_summary fails with TextTooShort, issuing no generation call,
   exactly when the text trimmed of surrounding whitespace has fewer than 50
   characters; whitespace padding does not count. *)
C8_TextTooShortIffTrimmedBelow50 ==
    Called("create_summary") =>
        LET trimmed == TextLen(strip(transcript_data.text)) IN
        /\ trimmed < 50 <=> ~SummaryGenerated
        /\ trimmed < 50 <=> prompts.summarize = None
        /\ trimmed < 50 => summary_data = None

\* a text of 56 characters, 49 of them after trimming, was refused
C8_Witness ==
    /\ Called("create_summary")
    /\ TextLen(transcript_data.text) >= 50
    /\ TextLen(strip(transcript_data.text)) = 49
    /\ summary_data = None /\ ~SummaryGenerated

Min(a, b) == IF a <= b THEN a ELSE b

(* C9: the text create_summary places in its prompt is the input unchanged
   when the input has at most 30,000 characters, and otherwise the input's
   first 30,000 characters followed by the truncation marker; the text
   analyze_content places in its prompt is the input's first 5,000
   characters. *)
C9_TruncationLaw ==
    /\ prompts.summarize # None =>
         LET t == transcript_data.text
             p == prompts.summarize.text
         IN  IF TextLen(t) > 30000
             THEN /\ TextLen(p) = 30000 + TextLen(TruncationMarker)
                  /\ Slice(p, 30000) = Slice(t, 30000)
                  /\ LastChars(p, TextLen(TruncationMarker)) = TruncationMarker
             ELSE p = t
    /\ prompts.analyze # None =>
         LET t == transcript_data.text
             p == prompts.analyze.text
         IN  /\ TextLen(p) = Min(5000, TextLen(t))
             /\ p = Slice(t, TextLen(p))

\* a transcript of 30,001 characters was summarized and analyzed
C9_Witness ==
    /\ prompts.summarize # None /\ prompts.analyze # None
    /\ TextLen(transcript_data.text) = 30001
    /\ TextLen(prompts.summarize.text) > 30001
    /\ TextLen(prompts.analyze.text) = 5000

(* C10: in every SummaryResult compression_ratio is strictly positive and
   equals summary_length / original_length, the character counts of the
   generated summary and of the (possibly truncated) text of the prompt. *)
C10_CompressionRatioPositive ==
    summary_data # None =>
        LET ratio == summary_data.compression_ratio IN
        /\ summary_data.summary_length = TextLen(summary_data.summary)
        /\ summary_data.original_length = TextLen(prompts.summarize.text)
        /\ ratio.den > 0
        /\ ratio.num * summary_data.original_length = summary_data.summary_length * ratio.den
        /\ ratio.num > 0

(* C11: _get_system_prompt selects the template of the style for structured,
   bullet_points and paragraph, and for an unrecognized style returns the
   prompt of structured; the target-language instruction is in the prompt
   exactly when a target language is set, and names that language. *)
C11_PromptTemplateAndLanguage ==
    /\ prompts.summarize # None =>
         LET p == prompts.summarize.system IN
         /\ summary_type = "structured" => p.template = "structured"
         /\ summary_type = "bullet_points" => p.template = "bullet_points"
         /\ summary_type = "paragraph" => p.template = "paragraph"
         /\ summary_type \notin {"structured", "bullet_points", "paragraph"} =>
                p.template = "structured"
         /\ p.lang_instruction # "" <=> target_language # Unset
         /\ target_language = "pt" => p.lang_instruction = "português brasileiro"
         /\ target_language = "en" => p.lang_instruction = "inglês"
         /\ target_language = "es" => p.lang_instruction = "espanhol"
         /\ target_language = "fr" => p.lang_instruction = "francês"
    /\ _get_system_prompt("haiku", target_language)
           = _get_system_prompt("structured", target_language)

\* a summary requested in an unrecognized style and in French
C11_Witness ==
    /\ prompts.summarize # None
    /\ summary_type = "haiku" /\ target_language = "fr"
    /\ prompts.summarize.system.template = "structured"
    /\ prompts.summarize.system.lang_instruction = "francês"

(* C12: the summary_type recorded in every SummaryResult is one of
   structured, bullet_points, paragraph and names the template the prompt was
   built from, also when create_summary was given an unrecognized style. *)
C12_SummaryTypeInEnumeration ==
    summary_data # None =>
        /\ summary_data.summary_type \in {"structured", "bullet_points", "paragraph"}
        /\ summary_data.summary_type = prompts.summarize.system.template

(* C13: the transcript's language is the requested target language when one
   was given and the sentinel 'auto-detectado' otherwise, never null or
   empty; a run of analyze_video given no language and no summary style
   returns a record whose transcript language is the sentinel and whose
   summary style is structured. *)
C13_DefaultLanguageAndStyle ==
    /\ transcript_data # None =>
         /\ transcript_data.language \notin {Unset, ""}
         /\ target_language # Unset => transcript_data.language = target_language
         /\ target_language = Unset => transcript_data.language = "auto-detectado"
    /\ (entry = "analyze_video" /\ style_arg = Omitted /\ target_language = Unset
           /\ source_language = Unset /\ final_result # None) =>
         /\ final_result.transcript.language = "auto-detectado"
         /\ final_result.summary.summary_type = "structured"
         /\ prompts.summarize.system.template = "structured"

\* https://youtu.be/abc analyzed with no language and no style: a record returned
C13_Witness ==
    /\ entry = "analyze_video" /\ pc = "done"
    /\ youtube_url = << "https://", "youtu.be/", "abc" >>
    /\ style_arg = Omitted /\ target_language = Unset /\ source_language = Unset
    /\ final_result # None
    /\ final_result.transcript.language = "auto-detectado"

(* C14: the transcription prompt depends on (target_language,
   source_language) only.  Target absent: the verbatim prompt, naming no
   language, the same with or without a source language.  Target present,
   source absent: the transcribe-and-translate prompt naming the target and
   no source.  Both present: the prompt names the source and the target. *)
C14_TranscriptionPromptCases ==
    prompts.transcribe # None =>
        LET p == prompts.transcribe IN
        /\ target_language = Unset =>
              p = [kind |-> "verbatim", target_name |-> "", source_name |-> ""]
        /\ (target_language # Unset /\ source_language = Unset) =>
              /\ p.kind = "translate"
              /\ p.target_name # "" /\ p.source_name = ""
        /\ (target_language # Unset /\ source_language # Unset) =>
              /\ p.kind = "translate"
              /\ p.target_name # "" /\ p.source_name # ""
        /\ (target_language = "pt" /\ source_language = "en") =>
              /\ p.target_name = "português brasileiro"
              /\ p.source_name = "inglês"
              /\ transcript_data # None => transcript_data.language = "pt"

\* an English audio transcribed into Portuguese
C14_Witness ==
    /\ prompts.transcribe # None /\ transcript_data # None
    /\ source_language = "en" /\ target_language = "pt"
    /\ prompts.transcribe.source_name = "inglês"
    /\ prompts.transcribe.target_name = "português brasileiro"
    /\ transcript_data.language = "pt"

\* the optimize_for_gemini calls made on an asset that exists
GeminiCalls ==
    {i \in DOMAIN conversions :
        /\ conversions[i].op = "optimize_for_gemini"
        /\ exists(conversions[i].before, conversions[i].input)}

\* the call returned its input and touched neither the transcoder nor a file
ZeroCost(c) == c.result = c.input /\ ~c.transcoded /\ c.after = c.before

\* the call ran the transcoder towards <stem>_gemini_optimized.mp3, mono, 22,050 Hz
TranscodeAttempted(c) ==
    /\ c.transcoded
    /\ c.output = [dir |-> "temp_files",
                   stem |-> Append(c.input.stem, "_gemini_optimized"),
                   ext |-> "mp3"]
    /\ c.encoding.acodec = "mp3" /\ c.encoding.ac = 1 /\ c.encoding.ar = 22050
    /\ c.result \in {c.output, c.input}
    /\ \A f \in c.after \ c.before : f.path = c.output

(* C15, as stated: optimize_for_gemini on an existing asset returns the
   identical reference, with no transcoder call and no file created, when the
   container is mp3, wav or flac and the size is below 18 MB; every other
   existing asset is transcoded towards <stem>_gemini_optimized.mp3. *)
C15_ZeroCostBelow18 ==
    \A i \in GeminiCalls :
        LET c == conversions[i]
            size == st_size(c.before, c.input)
        IN  IF c.input.ext \in {"mp3", "wav", "flac"} /\ size < 18 * 1024 * 1024
            THEN ZeroCost(c)
            ELSE TranscodeAttempted(c)

(* C15, amended: the zero-cost path is taken when the container is mp3, wav
   or flac and the size is at most 18 MB (18 MB exactly included): the call
   returns the identical reference without calling the transcoder or creating
   a file, so two calls on such an asset return the same reference.  Every
   other existing asset is transcoded towards a mono 22,050 Hz MP3 named
   <stem>_gemini_optimized.mp3. *)
C15_ZeroCostUpTo18 ==
    /\ \A i \in GeminiCalls :
         LET c == conversions[i]
             size == st_size(c.before, c.input)
         IN  IF c.input.ext \in {"mp3", "wav", "flac"} /\ size <= 18 * 1024 * 1024
             THEN ZeroCost(c)
             ELSE TranscodeAttempted(c)
    /\ \A i, j \in GeminiCalls :
         (ZeroCost(conversions[i]) /\ conversions[j].input = conversions[i].input)
             => conversions[j].result = conversions[i].result

\* optimize_for_gemini called twice on an mp3 of exactly 18 MB
C15_Witness ==
    /\ GeminiCalls = {1, 2}
    /\ conversions[1].input.ext = "mp3"
    /\ st_size(conversions[1].before, conversions[1].input) = 18 * 1024 * 1024
    /\ ZeroCost(conversions[1]) /\ ZeroCost(conversions[2])
    /\ conversions[2].result = conversions[1].result

\* the transcoder ran and raised, or left no file at the output path
TranscodeFailed(c) == c.transcoded /\ (c.ff.raises \/ ~exists(c.after, c.output))

(* C16: when the transcode fails (the transcoder raises, or no output file
   is produced), optimize_for_gemini and optimize_for_whisper return the
   original asset reference and never a failure, and convert_to_wav returns
   None. *)
C16_LenientFallbackStrictFailure ==
    \A i \in DOMAIN conversions :
        LET c == conversions[i] IN
        TranscodeFailed(c) =>
            /\ c.op \in {"optimize_for_gemini", "optimize_for_whisper"} =>
                   c.result = c.input
            /\ c.op = "convert_to_wav" => c.result = None

(* C17: _save_results never raises to its caller; a failure while writing
   one of the three artifacts is caught and reported and the other artifacts
   are still written; the caller receives the paths of the artifacts that
   were written. *)
C17_PersistReturnsWrittenPaths ==
    Called("_save_results") =>
        /\ outcome = "returned"
        /\ {f.kind : f \in outputFiles} = ArtifactKinds \ write_errors
        /\ persisted # None
        /\ {persisted[k] : k \in DOMAIN persisted} = outputFiles

(* C18: a URL that fails validation is rejected before any stage runs:
   analyze_video returns None, having invoked no metadata fetch, download,
   transcode, backend call or persistence (and no cleanup), and having created
   no transient or output file. *)
C18_InvalidUrlRejectedBeforeStages ==
    (entry = "analyze_video" /\ youtube_url = << "https://", "vimeo.com/", "123" >>) =>
        /\ pc \in {"start", "done"}
        /\ calls = << >>
        /\ tempFiles = {} /\ outputFiles = {} /\ backendFiles = {}
        /\ prompts = NoPrompts
        /\ video_info = None /\ audio_path = None /\ converted_path = None
        /\ transcript_data = None /\ summary_data = None /\ analysis_data = None
        /\ final_result = None
        /\ pc = "done" => outcome = "returned"

\* analyze_video has returned None for https://vimeo.com/123
C18_Witness ==
    /\ entry = "analyze_video" /\ youtube_url = << "https://", "vimeo.com/", "123" >>
    /\ pc = "done" /\ outcome = "returned" /\ final_result = None
    /\ calls = << >>

\* the string is a URL of a known shape: after an optional http(s) scheme and
\* an optional www., it begins with one of the four shapes
KnownShape(url) ==
    LET afterScheme == IF url # << >> /\ Head(url) \in {"https://", "http://"}
                       THEN Tail(url) ELSE url
        host == IF afterScheme # << >> /\ Head(afterScheme) = "www."
                THEN Tail(afterScheme) ELSE afterScheme
    IN  /\ host # << >>
        /\ Head(host) \in {"youtube.com/watch?v=", "youtu.be/",
                            "youtube.com/embed/", "youtube.com/v/"}

(* C19: validate_youtube_url accepts a string if and only if it is a URL of
   one of the four known shapes (watch-with-id, short-link, embed, legacy-v);
   every other string is rejected, also a URL of another site or scheme that
   contains one of the shapes further on. *)
C19_AcceptsIffKnownShape ==
    (entry = "validate_youtube_url" /\ pc = "done") =>
        (outcome = "accepted" <=> KnownShape(youtube_url))

\* how many times an operation was invoked
Count(op) == Len(SelectSeq(calls, LAMBDA c : c.op = op))

(* no operation of the run is invoked twice: each stage operation and each
   external operation at most once, and each generation call directly after
   the upload, create_summary or analyze_content it belongs to *)
NoOperationRepeated ==
    /\ \A op \in {"get_video_info", "download_audio", "optimize_for_gemini", "ffmpeg.run",
                   "transcribe_audio", "upload_file", "delete_file", "create_summary",
                   "analyze_content", "_save_results"} : Count(op) <= 1
    /\ \A i \in DOMAIN calls :
         calls[i].op = "generate_content" =>
             /\ i > 1
             /\ calls[i - 1].op \in {"upload_file", "create_summary", "analyze_content"}

(* a failed metadata fetch, download, upload, transcription generation or
   summary generation ends its stage with None and the run with it; a failed
   analysis generation ends its stage with None *)
FailureEndsStage ==
    /\ (Called("get_video_info") /\ video_info = None) =>
          ~Called("download_audio") /\ final_result = None
    /\ (Called("download_audio") /\ audio_path = None) =>
          ~Called("optimize_for_gemini") /\ final_result = None
    /\ (Called("upload_file") /\ ~Called("delete_file")) =>
          /\ transcript_data = None
          /\ ~Called("create_summary") /\ final_result = None
    /\ (SummaryGenerated /\ summary_data = None) =>
          ~Called("analyze_content") /\ final_result = None
    /\ (Called("analyze_content") /\ prompts.analyze # None /\ final_result # None) =>
          final_result.analysis = analysis_data

\* the Normalize stage has returned and its transcode left no output file
TranscodeLeftNoFile ==
    /\ pc = "transcribe" /\ Called("ffmpeg.run")
    /\ ~exists(tempFiles, [dir |-> "temp_files",
                            stem |-> Append(audio_path.stem, "_gemini_optimized"),
                            ext |-> "mp3"])

(* C20, as stated: within one run of analyze_video each external operation
   is invoked at most once, and a failure of any of them, the transcode
   included, ends its stage with a failure signal. *)
C20_NoRetryEveryFailureSignalled ==
    entry = "analyze_video" =>
        /\ NoOperationRepeated
        /\ FailureEndsStage
        /\ TranscodeLeftNoFile => converted_path = None

(* C20, amended: within one run of analyze_video each external operation
   (metadata fetch, download, transcode, upload, transcription, summary and
   analysis generation) is invoked at most once and never retried; a failure
   of the metadata fetch, the download, the upload or a generation call ends
   its stage with None, while a failed transcode ends the Normalize stage
   with the original asset, on which the run goes on; the TranscriptResult is
   produced at most once per run and never changed afterwards. *)
C20_NoRetryTranscodeFallsBack ==
    /\ [](entry = "analyze_video" =>
            /\ NoOperationRepeated
            /\ FailureEndsStage
            /\ TranscodeLeftNoFile => converted_path = audio_path)
    /\ [][entry = "analyze_video" =>
            /\ transcript_data # None => transcript_data' = transcript_data
            /\ transcript_data' # transcript_data => ~Called("transcribe_audio")]_vars

\* a run whose transcode failed and whose transcription generation raised: one
\* call of each, None returned
C20_Witness ==
    /\ entry = "analyze_video" /\ pc = "done" /\ final_result = None
    /\ Count("ffmpeg.run") = 1 /\ converted_path = audio_path
    /\ Count("upload_file") = 1 /\ Count("generate_content") = 1
    /\ ~Called("delete_file") /\ transcript_data = None

\* the five stages whose failure ends the run all produced a result
FiveStagesSucceeded ==
    /\ video_info # None /\ audio_path # None /\ converted_path # None
    /\ transcript_data # None /\ summary_data # None

(* C23: analyze_video returns a record exactly when the URL is valid and
   MetadataFetch, AudioAcquire, Normalize, Transcribe and Summarize all
   succeeded, whether or not Analyze or a write of Persist failed; every
   returned record holds video_info, transcript and summary; once
   _save_results was called the run returns the record whatever the writers
   reported.  (A run ended by an exception reaching the except clause of
   analyze_video returns None or propagates.) *)
C23_RecordIffFiveStagesSucceeded ==
    (entry = "analyze_video" /\ pc \in {"cleanup", "done"}) =>
        /\ outcome = "returned" =>
              (final_result # None <=>
                  /\ \E i \in DOMAIN youtube_url :
                        youtube_url[i] \in {"youtube.com/watch?v=", "youtu.be/",
                                            "youtube.com/embed/", "youtube.com/v/"}
                  /\ FiveStagesSucceeded)
        /\ outcome \in {"caught", "raised"} => final_result = None
        /\ final_result # None =>
              /\ final_result.video_info # None
              /\ final_result.transcript # None
              /\ final_result.summary # None
        /\ Called("_save_results") => final_result # None

\* a record returned although the analysis and the writing of one artifact failed
C23_Witness ==
    /\ entry = "analyze_video" /\ pc = "done" /\ outcome = "returned"
    /\ final_result # None /\ final_result.analysis = None
    /\ write_errors # {}

(* C24: in the pipeline, an asset Normalize returned through the zero-cost
   path (no transcode attempted) is at most 18 MB and passes the size check
   of Transcribe; the size check fails only after a transcode was attempted:
   the asset is then the transcoded output, still over 20 MB, or the
   over-size original returned as the fallback of a failed transcode. *)
C24_TooLargeOnlyAfterTranscode ==
    (Called("optimize_for_gemini") /\ converted_path # None
        /\ exists(tempFiles, converted_path)) =>
        LET size == st_size(tempFiles, converted_path) IN
        /\ ~Called("ffmpeg.run") =>
              /\ converted_path = audio_path
              /\ size <= 18 * 1024 * 1024
              /\ Called("transcribe_audio") => Called("upload_file")
        /\ (Called("transcribe_audio") /\ size > 20 * 1024 * 1024) =>
              /\ Called("ffmpeg.run")
              /\ ~Called("upload_file") /\ transcript_data = None

\* the transcoded output was still over 20 MB and Transcribe refused it
C24_Witness ==
    /\ Called("ffmpeg.run") /\ Called("transcribe_audio")
    /\ converted_path # None /\ converted_path # audio_path
    /\ exists(tempFiles, converted_path)
    /\ st_size(tempFiles, converted_path) > 20 * 1024 * 1024
    /\ transcript_data = None /\ ~Called("upload_file")

(* C27: the report written by _create_full_report holds the 'translation
   applied' line exactly when a target language was requested and differs
   from the source language; it never holds it when no target language was
   requested, whatever the source language. *)
C27_TranslationLineIffTargetDiffers ==
    \A f \in outputFiles :
        f.kind = "relatorio" =>
            (f.translation_line <=>
                (target_language # Unset /\ target_language # source_language))

\* the transient files the returned record names
ReferencedPaths ==
    {final_result.files_processed.original_audio,
     final_result.files_processed.converted_audio,
     final_result.transcript.file_path}

(* C28, as stated: when analyze_video returns a record, the transient audio
   files named by files_processed.original_audio, files_processed.converted_audio
   and transcript.file_path have been deleted by the finalization step: none
   of them exists in the transient directory. *)
C28_ReturnedRecordReferencesNoFile ==
    (entry = "analyze_video" /\ pc = "done" /\ final_result # None) =>
        \A f \in tempFiles : f.path \notin ReferencedPaths

(* C28, amended: when analyze_video returns a record, the finalization step
   has run and every transient audio file the record names has been deleted,
   except a file whose deletion raised an error, which cleanup_temp_files
   reports and leaves in place. *)
C28_ReferencesDeletedUnlessUnlinkFailed ==
    (entry = "analyze_video" /\ pc = "done" /\ final_result # None) =>
        /\ calls[Len(calls)].op = "cleanup_temp_files"
        /\ \A f \in tempFiles :
               f.path \in ReferencedPaths => f.path \in unlink_errors

\* a returned record naming a raw and an optimized audio file, both deleted
C28_Witness ==
    /\ entry = "analyze_video" /\ pc = "done" /\ final_result # None
    /\ final_result.files_processed.converted_audio
           # final_result.files_processed.original_audio
    /\ final_result.transcript.file_path = final_result.files_processed.converted_audio
    /\ tempFiles = {} /\ unlink_errors = {}

\* the stage operations are invoked in the order of analyze_video, the three
\* language stages with the run's target language
SameOperationsAndArguments ==
    /\ Len(StageCalls) <= Len(StageOrder)
    /\ \A k \in DOMAIN StageCalls : StageCalls[k].op = StageOrder[k]
    /\ \A i \in DOMAIN calls :
          calls[i].op \in LanguageStages => calls[i].lang = target_language

\* no stage is invoked after one of the first five stages has failed
StopsAtFailingStage ==
    \A k \in 1..5 : Len(StageCalls) > k => StageResult(k) # None

\* a run whose five stages succeeded has called _save_results by its end
PersistsOnSuccess ==
    (pc = "done" /\ FiveStagesSucceeded /\ outcome \notin {"caught", "raised"}) =>
        Called("_save_results")

\* a run that entered the try block ends with the call of cleanup_temp_files
CleanupAtEnd ==
    (pc = "done" /\ EnteredTry /\ youtube_url # << >>) =>
        calls[Len(calls)].op = "cleanup_temp_files"

(* C26: the form's inline pipeline (app.py) is equivalent to analyze_video:
   both invoke the same stage operations in the same order with the same
   language arguments, both stop at the same failing stage, a failed
   Summarize included, both persist the result triple on success and both run
   cleanup at the end; so whatever holds of every run of analyze_video holds
   of every run of the form. *)
C26_FormEquivalentToAnalyzeVideo ==
    entry \in {"analyze_video", "app"} =>
        /\ SameOperationsAndArguments
        /\ StopsAtFailingStage
        /\ PersistsOnSuccess
        /\ CleanupAtEnd

\* the pairs of calls optimize_for_gemini(optimize_for_gemini(a)) on an
\* existing asset: the second call is handed what the first returned
OwnOutputCalls ==
    {i \in GeminiCalls :
        /\ i + 1 \in DOMAIN conversions
        /\ conversions[i + 1].op = "optimize_for_gemini"
        /\ conversions[i + 1].input = conversions[i].result}

(* C30, as stated: normalization is idempotent on its own output:
   optimize_for_gemini(optimize_for_gemini(a)) returns the reference
   optimize_for_gemini(a) returned and performs no second transcode, whether
   the first call took the zero-cost path, transcoded or fell back to the
   original after a failed transcode. *)
C30_NormalizeIdempotent ==
    \A i \in OwnOutputCalls :
        /\ conversions[i + 1].result = conversions[i].result
        /\ ~conversions[i + 1].transcoded

(* C30, amended: optimize_for_gemini applied to its own result returns the
   same reference without a transcode exactly when that result is an mp3, wav
   or flac file of at most 18 MB (the zero-cost path, or a transcode whose
   output is at most 18 MB).  When the result is not (a transcoded output over
   18 MB, or the original returned after a failed transcode) the second call
   runs the transcoder again, towards <stem>_gemini_optimized.mp3 of the
   reference it was given, and returns a different reference if that
   transcode succeeds. *)
C30_IdempotentOnCompliantOutput ==
    \A i \in OwnOutputCalls :
        LET first == conversions[i]
            second == conversions[i + 1]
            size == st_size(first.after, first.result)
        IN  IF first.result.ext \in {"mp3", "wav", "flac"} /\ size <= 18 * 1024 * 1024
            THEN ZeroCost(second)
            ELSE /\ TranscodeAttempted(second)
                 /\ second.result = first.result <=> TranscodeFailed(second)

\* a first call that transcoded to a 15 MB mp3 and a second call on that
\* output that returned it untouched
C30_Witness ==
    /\ OwnOutputCalls = {1}
    /\ conversions[1].transcoded
    /\ conversions[1].result = conversions[1].output
    /\ conversions[2].input = conversions[1].output
    /\ ZeroCost(conversions[2])

-----------------------------------------------------------------------------
(* downloader.py: download_with_progress observed chunk by chunk.  The
   platform delivers the stream's bytes in chunks and calls on_progress after
   each one; the callback, when given, only records the value. *)

DlInit ==
    /\ entry = "download_with_progress"
    /\ pc = "downloading"
    /\ \E size \in 1..MaxFileSize, cb \in BOOLEAN :
         download = [filesize |-> size,
                     bytes_remaining |-> size,
                     progress_callback |-> cb,
                     reported |-> << >>,
                     printed |-> << >>,
                     raised |-> FALSE,
                     result |-> None]
    /\ youtube_url = ShortLinkUrl
    /\ style_arg = Omitted
    /\ summary_type = BindSummaryType(style_arg)
    /\ target_language = Unset
    /\ source_language = Unset
    /\ video_info = None
    /\ audio_path = None
    /\ converted_path = None
    /\ transcript_data = None
    /\ summary_data = None
    /\ analysis_data = None
    /\ outcome = "running"
    /\ final_result = None
    /\ tempFiles = {}
    /\ outputFiles = {}
    /\ backendFiles = {}
    /\ prompts = NoPrompts
    /\ write_errors = {}
    /\ unlink_errors = {}
    /\ calls = << >>
    /\ persisted = None
    /\ conversions = << >>
    /\ sessions = << >>
    /\ cleanups = << >>
    /\ now = 0
    /\ archive = {}

\* everything but the download and the transient directory
dl_frame == << inputs, locals, outcome, final_result, outputFiles, backendFiles, prompts,
               write_errors, unlink_errors, calls, persisted, conversions, sessions,
               cleanups, now, archive >>

\* audio_stream.download: a chunk of n bytes arrives and on_progress is called
Dl_Chunk ==
    /\ entry = "download_with_progress" /\ pc = "downloading"
    /\ \E n \in 1..download.bytes_remaining :
         download' = on_progress(download, download.bytes_remaining - n)
    /\ UNCHANGED << pc, tempFiles, dl_frame >>

\* lines 118-122: the last byte has arrived, the file is in temp_files
Dl_Complete ==
    /\ entry = "download_with_progress" /\ pc = "downloading"
    /\ download.bytes_remaining = 0
    /\ LET output_path == DownloadPath("mp4") IN
         /\ tempFiles' = WriteFile(tempFiles, output_path, download.filesize)
         /\ download' = [download EXCEPT !.result = output_path]
    /\ pc' = "done"
    /\ UNCHANGED dl_frame

\* lines 123-125: the platform raises; a partial file may be left
Dl_Exception ==
    /\ entry = "download_with_progress" /\ pc = "downloading"
    /\ \E partial \in BOOLEAN :
         tempFiles' = IF partial /\ download.bytes_remaining < download.filesize
                      THEN WriteFile(tempFiles, DownloadPath("mp4"),
                                     download.filesize - download.bytes_remaining)
                      ELSE tempFiles
    /\ download' = [download EXCEPT !.raised = TRUE, !.result = None]
    /\ pc' = "done"
    /\ UNCHANGED dl_frame

DlNext ==
    \/ Dl_Chunk
    \/ Dl_Complete
    \/ Dl_Exception

DownloadSpec == DlInit /\ [][DlNext]_vars

\* a <= b for exact quotients with positive denominators
Leq(a, b) == a.num * b.den <= b.num * a.den

Fraction(n) == [num |-> n, den |-> 1]

NonDecreasing(values) ==
    \A i, j \in DOMAIN values : i <= j => Leq(values[i], values[j])

\* the download returned its file exactly when every byte arrived and nothing raised
ResultFromBytesAlone ==
    pc = "done" =>
        IF download.raised
        THEN download.result = None
        ELSE /\ download.bytes_remaining = 0
             /\ download.result = [dir |-> "temp_files", stem |-> << "video" >>, ext |-> "mp4"]
             /\ [path |-> download.result, size |-> download.filesize] \in tempFiles

(* C22, as stated: during download_with_progress the progress callback is
   invoked with values that never decrease and always lie within [0,1] as
   bytes arrive, and invoking it has no effect on the download's result. *)
C22_ProgressFractionInUnitInterval ==
    entry = "download_with_progress" =>
        /\ NonDecreasing(download.reported)
        /\ \A i \in DOMAIN download.reported :
              /\ Leq(Fraction(0), download.reported[i])
              /\ Leq(download.reported[i], Fraction(1))
        /\ ResultFromBytesAlone

(* C22, amended: during download_with_progress the progress callback is
   invoked, once per chunk, with the percentage of the stream downloaded so
   far: values that never decrease and lie within [0,100], 100 once the last
   byte has arrived; without a callback the same values are printed.  The
   callback only observes: the download returns its file exactly when every
   byte arrived and nothing raised, with or without a callback. *)
C22_ProgressPercentage ==
    entry = "download_with_progress" =>
        LET values == IF download.progress_callback
                      THEN download.reported ELSE download.printed
        IN  /\ NonDecreasing(values)
            /\ \A i \in DOMAIN values :
                  /\ Leq(Fraction(0), values[i])
                  /\ Leq(values[i], Fraction(100))
            /\ (values # << >>) =>
                  values[Len(values)].num * download.filesize =
                      (download.filesize - download.bytes_remaining) * 100
                          * values[Len(values)].den
            /\ ~download.progress_callback => download.reported = << >>
            /\ download.progress_callback => download.printed = << >>
            /\ ResultFromBytesAlone

\* a download of three chunks with a callback: three growing values, the last 100
C22_Witness ==
    /\ entry = "download_with_progress" /\ pc = "done"
    /\ download.progress_callback /\ download.result # None
    /\ Len(download.reported) = 3
    /\ ~Leq(download.reported[2], download.reported[1])
    /\ download.reported[3].num = 100 * download.reported[3].den

-----------------------------------------------------------------------------
(* app.py: form sessions sharing the analyzer cached by get_youtube_analyzer
   and the one directory temp_files/.  Each session runs the form's pipeline
   on a video of its own; the steps that touch temp_files are modelled, one
   action per step, and the steps of different sessions interleave. *)

SessionTitles == << "video", "aula" >>

\* form sessions sharing the cached analyzer, one per title
NumSessions == Len(SessionTitles)

\* the platform, the transcoder and the backend, as far as the files are concerned
SessionDownloads ==
    {[ok |-> FALSE, written |-> FALSE, subtype |-> "mp4", size |-> 1],
     [ok |-> TRUE, written |-> TRUE, subtype |-> "mp4", size |-> GeminiSafeMB * MiB],
     [ok |-> TRUE, written |-> TRUE, subtype |-> "mp3", size |-> GeminiSafeMB * MiB]}

SessionFfmpeg ==
    {[raises |-> TRUE, written |-> FALSE, size |-> 0],
     [raises |-> FALSE, written |-> TRUE, size |-> 15 * MiB]}

SessionTranscribes ==
    {[fail |-> "generate", text |-> << >>],
     [fail |-> "none", text |-> Chars(30)]}

\* a file an earlier run of analyze_video left in output/
EarlierOutput ==
    {OutputFile("transcricao",
                [video_info |-> VideoInfo,
                 analysis |-> None,
                 language_settings |-> [source_language |-> Unset,
                                        target_language |-> Unset]],
                FALSE, TRUE)}

\* a session whose form has not been submitted
IdleSession ==
    [pc |-> "idle", audio_path |-> None, converted_path |-> None,
     transcript_data |-> None, created |-> {}]

SessInit ==
    /\ entry = "sessions"
    /\ pc = "serving"
    /\ sessions = [s \in 1..NumSessions |-> IdleSession]
    /\ cleanups = << >>
    /\ tempFiles = {}
    /\ outputFiles = EarlierOutput
    /\ youtube_url = ShortLinkUrl
    /\ style_arg = "structured"
    /\ summary_type = BindSummaryType(style_arg)
    /\ target_language = Unset
    /\ source_language = Unset
    /\ video_info = None
    /\ audio_path = None
    /\ converted_path = None
    /\ transcript_data = None
    /\ summary_data = None
    /\ analysis_data = None
    /\ outcome = "running"
    /\ final_result = None
    /\ backendFiles = {}
    /\ prompts = NoPrompts
    /\ write_errors = {}
    /\ unlink_errors = {}
    /\ calls = << >>
    /\ persisted = None
    /\ conversions = << >>
    /\ download = None
    /\ now = 0
    /\ archive = {}

\* everything but the sessions, the cleanups and the transient directory
sess_frame == << pc, inputs, locals, outcome, final_result, outputFiles, backendFiles,
                 prompts, write_errors, unlink_errors, calls, persisted, conversions,
                 download, now, archive >>

\* form submissions so far: the runs finished and the runs under way
Submissions ==
    Len(cleanups)
        + Cardinality({s \in 1..NumSessions : sessions[s].pc \notin {"idle", "done"}})

\* lines 118-150: the form is submitted with a valid URL
Sess_Submit(s) ==
    /\ entry = "sessions" /\ sessions[s].pc \in {"idle", "done"}
    /\ Submissions < MaxSubmissions
    /\ sessions' = [sessions EXCEPT ![s] = [IdleSession EXCEPT !.pc = "download"]]
    /\ UNCHANGED << tempFiles, cleanups, sess_frame >>

\* lines 144-151
Sess_AudioAcquire(s) ==
    /\ entry = "sessions" /\ sessions[s].pc = "download"
    /\ \E d \in SessionDownloads :
         LET r == download_audio_of(SessionTitles[s], tempFiles, d) IN
         /\ tempFiles' = r.files
         /\ sessions' = [sessions EXCEPT
                ![s].audio_path = r.result,
                ![s].created = IF d.written
                               THEN @ \cup {Path("temp_files",
                                                 sanitize_filename(SessionTitles[s]),
                                                 d.subtype)}
                               ELSE @,
                ![s].pc = IF r.result = None THEN "cleanup" ELSE "normalize"]
    /\ UNCHANGED << cleanups, sess_frame >>

\* lines 153-160
Sess_Normalize(s) ==
    /\ entry = "sessions" /\ sessions[s].pc = "normalize"
    /\ \E ff \in SessionFfmpeg :
         LET r == optimize_for_gemini(tempFiles, sessions[s].audio_path, ff) IN
         /\ tempFiles' = r.files
         /\ sessions' = [sessions EXCEPT
                ![s].converted_path = r.result,
                ![s].created = @ \cup {f.path : f \in r.files \ tempFiles},
                ![s].pc = IF r.result = None THEN "cleanup" ELSE "transcribe"]
    /\ UNCHANGED << cleanups, sess_frame >>

\* lines 162-276: the transcription reads the file; the steps after it touch no file
Sess_Transcribe(s) ==
    /\ entry = "sessions" /\ sessions[s].pc = "transcribe"
    /\ \E b \in SessionTranscribes :
         LET r == transcribe_audio(tempFiles, sessions[s].converted_path, Unset, Unset, b) IN
         sessions' = [sessions EXCEPT ![s].transcript_data = r.result,
                                      ![s].pc = "cleanup"]
    /\ UNCHANGED << tempFiles, cleanups, sess_frame >>

\* lines 281-284: the finally clause of the session's run
Sess_Cleanup(s) ==
    /\ entry = "sessions" /\ sessions[s].pc = "cleanup"
    /\ \E locked \in SUBSET tempFiles :
         /\ Cardinality(locked) <= MaxLocked
         /\ tempFiles' = cleanup_temp_files(tempFiles, locked)
         /\ cleanups' = Append(cleanups,
                               [by |-> s,
                                created |-> sessions[s].created,
                                before |-> tempFiles,
                                locked |-> locked,
                                after |-> cleanup_temp_files(tempFiles, locked)])
    /\ sessions' = [sessions EXCEPT ![s].pc = "done"]
    /\ UNCHANGED sess_frame

SessNext ==
    \E s \in 1..NumSessions :
        \/ Sess_Submit(s)
        \/ Sess_AudioAcquire(s)
        \/ Sess_Normalize(s)
        \/ Sess_Transcribe(s)
        \/ Sess_Cleanup(s)

SessionsSpec == SessInit /\ [][SessNext]_vars

(* C25: when two runs sharing the analyzer and temp_files/ interleave, each
   run's downloaded audio file exists from its download until its Normalize
   stage, and its optimized file from Normalize until its Transcribe stage
   has read it: no cleanup of another run deletes an asset not yet consumed. *)
C25_AssetsSurviveInterleaving ==
    entry = "sessions" =>
        \A s \in 1..NumSessions :
            /\ sessions[s].pc = "normalize" => exists(tempFiles, sessions[s].audio_path)
            /\ sessions[s].pc = "transcribe" => exists(tempFiles, sessions[s].converted_path)

\* the files a call of cleanup_temp_files removed
Removed(c) == c.before \ c.after

(* C29, as stated: cleanup_temp_files removes only transient files created
   by the run that invokes it and leaves every other file unchanged, in
   output/ and in temp_files/; on an empty directory it changes nothing. *)
C29_CleanupRemovesOnlyOwnFiles ==
    entry = "sessions" =>
        /\ outputFiles = EarlierOutput
        /\ \A i \in DOMAIN cleanups :
              LET c == cleanups[i] IN
              /\ \A f \in Removed(c) : f.path \in c.created
              /\ c.before = {} => c.after = {}

(* C29, amended: cleanup_temp_files removes every file of temp_files/,
   whichever run created it, except the files whose deletion raised, which it
   reports and leaves before going on to the next file; it changes no file of
   output/; on an empty directory it changes nothing. *)
C29_CleanupRemovesEveryTransientFile ==
    entry = "sessions" =>
        /\ outputFiles = EarlierOutput
        /\ \A i \in DOMAIN cleanups :
              LET c == cleanups[i] IN
              /\ c.after = c.locked
              /\ Removed(c) = c.before \ c.locked
              /\ c.before = {} => c.after = {}

\* a cleanup that removed another session's file, and a later one on an empty directory
C29_Witness ==
    /\ entry = "sessions"
    /\ \E i, j \in DOMAIN cleanups :
          /\ i < j
          /\ \E f \in Removed(cleanups[i]) : f.path \notin cleanups[i].created
          /\ cleanups[j].before = {} /\ cleanups[j].after = {}

-----------------------------------------------------------------------------
(* main.py: successive runs of analyze_video on one video, each reaching
   step 7, writing to the one directory output/ under the clock that
   _save_results reads. *)

RunsInit ==
    /\ entry = "runs"
    /\ pc = "idle"
    /\ now = 0
    /\ archive = {}
    /\ calls = << >>
    /\ tempFiles = {}
    /\ target_language = Unset
    /\ analysis_data = None
    /\ write_errors = {}
    /\ youtube_url = ShortLinkUrl
    /\ style_arg = Omitted
    /\ summary_type = BindSummaryType(style_arg)
    /\ source_language = Unset
    /\ video_info = VideoInfo
    /\ audio_path = None
    /\ converted_path = None
    /\ transcript_data = None
    /\ summary_data = None
    /\ outcome = "running"
    /\ final_result = None
    /\ outputFiles = {}
    /\ backendFiles = {}
    /\ prompts = NoPrompts
    /\ unlink_errors = {}
    /\ persisted = None
    /\ conversions = << >>
    /\ download = None
    /\ sessions = << >>
    /\ cleanups = << >>

\* what the runs leave alone
runs_frame == << entry, youtube_url, style_arg, summary_type, source_language, video_info,
                 converted_path, transcript_data, summary_data, outcome, final_result,
                 outputFiles, backendFiles, prompts, unlink_errors, persisted, conversions,
                 download, sessions, cleanups >>

\* runs that have reached _save_results
Runs == Len(SelectSeq(calls, LAMBDA c : c.op = "_save_results"))

\* lines 60-110 of a run whose five stages succeed: the audio is in temp_files
Run_Stages ==
    /\ entry = "runs" /\ pc = "idle" /\ Runs < MaxRuns
    /\ \E lang \in {Unset, "en"}, resp \in GenerateBehaviours :
         /\ target_language' = lang
         /\ analysis_data' = analyze_content(Chars(MinSummaryChars), lang, resp).result
    /\ audio_path' = DownloadPath("mp3")
    /\ tempFiles' = WriteFile(tempFiles, DownloadPath("mp3"), 15 * MiB)
    /\ pc' = "persist"
    /\ UNCHANGED << now, archive, calls, write_errors, runs_frame >>

\* lines 112-140 and 152-192: _save_results reads the clock and writes the artifacts
Run_Persist ==
    /\ entry = "runs" /\ pc = "persist"
    /\ \E failing \in SUBSET ArtifactKinds :
         /\ Cardinality(failing) <= MaxWriteFailures
         /\ archive' = WriteArtifacts(archive, _save_results(FinalResult, failing),
                                      now, Runs + 1)
         /\ write_errors' = failing
    /\ calls' = Append(calls, Call("_save_results", target_language))
    /\ pc' = "cleanup"
    /\ UNCHANGED << now, tempFiles, target_language, analysis_data, audio_path, runs_frame >>

\* lines 148-150: the finally clause
Run_Cleanup ==
    /\ entry = "runs" /\ pc = "cleanup"
    /\ tempFiles' = cleanup_temp_files(tempFiles, {})
    /\ calls' = Append(calls, Call("cleanup_temp_files", "-"))
    /\ pc' = "idle"
    /\ UNCHANGED << now, archive, target_language, analysis_data, audio_path,
                    write_errors, runs_frame >>

\* a second passes
Tick ==
    /\ entry = "runs" /\ now < MaxClock
    /\ now' = now + 1
    /\ UNCHANGED << pc, archive, calls, tempFiles, target_language, analysis_data,
                    audio_path, write_errors, runs_frame >>

RunsNext ==
    \/ Run_Stages
    \/ Run_Persist
    \/ Run_Cleanup
    \/ Tick

RunsSpec == RunsInit /\ [][RunsNext]_vars

\* the step is a call of _save_results
PersistStep ==
    Len(calls') > Len(calls) /\ calls'[Len(calls')].op = "_save_results"

\* no file of output/ is removed or replaced by the step
AppendOnly == \A a \in archive : a \in archive'

\* the files the step adds are named <title>_<timestamp>[_<lang>]_<kind>, the
\* language suffix present exactly when a target language was requested
NamedAfterRun ==
    \A a \in archive' \ archive :
        /\ a.name.stem = << "video" >>
        /\ a.name.timestamp = now
        /\ a.name.lang # "" <=> target_language # Unset
        /\ a.name.lang # "" => a.name.lang = target_language

(* C21: every successful run adds exactly one triple of files (transcript,
   summary, report) to output/, named <title>_<timestamp>[_<lang>]_<kind>
   with the language suffix present exactly when a target language was
   requested; output/ is append-only: no file written by an earlier run is
   overwritten, modified or removed by a later run or by cleanup. *)
C21_OneTriplePerRunAppendOnly ==
    [][ /\ AppendOnly
        /\ PersistStep =>
              /\ Cardinality(archive' \ archive) = 3
              /\ {a.name.kind : a \in archive' \ archive} = {"transcricao", "resumo", "relatorio"}
              /\ NamedAfterRun ]_vars

====
